---------------------------- MODULE Spec2Model ----------------------------
(***************************************************************************)
(* Schedule resolution engine of gtfs-bus-predictor-api.                   *)
(*                                                                         *)
(* The repository holds two variants of the Flask application:             *)
(*   "app"  : src/app.py                                                   *)
(*   "copy" : src/unnamed/part_000  (its header names it "app copy.py")    *)
(* Both are modelled; the variable `variant` says which one is running.    *)
(*                                                                         *)
(* Text is modelled as a sequence of one-character strings, so that        *)
(* str(), strip(), int(), re.sub, strftime, strptime, slicing and the      *)
(* lexicographic comparison of Python strings are computed, not assumed.   *)
(* A date-time is a record [day, h, m, s, us]: day 0 is Monday 2025-11-03, *)
(* us is 1 when the microsecond field is non-zero (half a second).         *)
(***************************************************************************)
EXTENDS Integers, Sequences, FiniteSets, TLC

VARIABLES
    variant,               \* which source file is running: "app" | "copy"
    archivos,              \* the tables the files under RUTA_GTFS hold, or MissingFiles
    GTFS_DATA,             \* module global: NoneData or the loaded tables
    initial_setup_done,    \* module global of run_once_setup
    pc,                    \* position of the request being handled
    paradas_a_procesar,    \* argument of process_schedules_for_stops
    ahora,                 \* the instant sampled by process_schedules_for_stops
    servicios_activos,     \* local of process_schedules_for_stops
    idx,                   \* position of the for loop over paradas_a_procesar
    parada_id,             \* the numeric id the current identifier resolved to
    lineas_con_destino,    \* local of calcular_proximos_buses
    lin,                   \* position of the for loop over lineas_con_destino
    resultados_por_linea,  \* local of calcular_proximos_buses
    resultados_totales,    \* local of process_schedules_for_stops (a dict)
    resultados,            \* what process_schedules_for_stops returned
    response,              \* what the endpoint answered: [status, body]
    cargas,                \* times load_gtfs_data printed "Cargando ...": its body ran
    lecturas_reloj,        \* calls of datetime.datetime.now made for the request
    user_config,           \* the groups GET /api/nearest iterates over
    user_pos,              \* the lat and lon arguments of GET /api/nearest
    hilos                  \* the threads of concurrent first requests

vars == <<variant, archivos, GTFS_DATA, initial_setup_done, pc,
          paradas_a_procesar, ahora, servicios_activos, idx, parada_id,
          lineas_con_destino, lin, resultados_por_linea, resultados_totales,
          resultados, response, cargas, lecturas_reloj, user_config, user_pos,
          hilos>>

---------------------------------------------------------------------------
(* Bounds of the model.                                                    *)

\* Longest list of stop identifiers a group is configured with.
MaxStops == 2

\* Longest time, in seconds, between two reads of the clock in one request.
MaxDrift == 1

\* Most groups a user's configuration holds.
MaxGroups == 2

\* Most requests the server handles at the same time, a thread each.
MaxHilos == 2

---------------------------------------------------------------------------
(* Text.                                                                   *)

Digits == <<"0", "1", "2", "3", "4", "5", "6", "7", "8", "9">>

IsDigit(c) == \E k \in 1..10 : Digits[k] = c

DigitVal(c) == (CHOOSE k \in 1..10 : Digits[k] = c) - 1

\* Code point of a character of a time string ('0'..'9' are 48..57, ':' 58).
Ord(c) == IF c = ":" THEN 58 ELSE 48 + DigitVal(c)

Min2(a, b) == IF a < b THEN a ELSE b

\* Python's a > b on str: the first differing character decides, and a
\* proper prefix is the smaller string.
StrGT(a, b) ==
    \/ \E k \in 1..Min2(Len(a), Len(b)) :
          /\ \A q \in 1..(k - 1) : a[q] = b[q]
          /\ Ord(a[k]) > Ord(b[k])
    \/ /\ Len(a) > Len(b)
       /\ \A q \in 1..Len(b) : a[q] = b[q]

\* s[:n]
Prefix(s, n) == SubSeq(s, 1, Min2(n, Len(s)))

\* '%02d' of strftime
TwoDigits(n) == <<Digits[(n \div 10) + 1], Digits[(n % 10) + 1]>>

RECURSIVE DigitsToInt(_)
\* int() of a run of decimal digits
DigitsToInt(s) ==
    IF Len(s) = 0 THEN 0
    ELSE 10 * DigitsToInt(SubSeq(s, 1, Len(s) - 1)) + DigitVal(s[Len(s)])

RECURSIVE IntToDigits(_)
\* str() of a non-negative int
IntToDigits(n) ==
    IF n < 10 THEN <<Digits[n + 1]>>
    ELSE IntToDigits(n \div 10) \o <<Digits[(n % 10) + 1]>>

RECURSIVE LStrip(_)
LStrip(s) == IF Len(s) > 0 /\ s[1] = " " THEN LStrip(Tail(s)) ELSE s

RECURSIVE RStrip(_)
RStrip(s) ==
    IF Len(s) > 0 /\ s[Len(s)] = " " THEN RStrip(SubSeq(s, 1, Len(s) - 1)) ELSE s

\* str.strip()
Strip(s) == RStrip(LStrip(s))

\* re.sub(r'\D', '', s)
OnlyDigits(s) == SelectSeq(s, IsDigit)

\* Whether int(s) succeeds on text without a sign: after strip(), digits,
\* with single underscores allowed between digits.
IntParses(s) ==
    LET t == Strip(s) IN
    /\ Len(t) > 0
    /\ IsDigit(t[1]) /\ IsDigit(t[Len(t)])
    /\ \A k \in 1..Len(t) : IsDigit(t[k]) \/ t[k] = "_"
    /\ \A k \in 1..(Len(t) - 1) : ~(t[k] = "_" /\ t[k + 1] = "_")

\* int(s) where it succeeds
IntValue(s) == DigitsToInt(OnlyDigits(Strip(s)))

\* A JSON scalar of the configuration: a number or a text.
JInt(n) == [kind |-> "int", n |-> n, s |-> <<>>]
JStr(s) == [kind |-> "str", n |-> 0, s |-> s]

\* str(x)
Str(x) == IF x.kind = "int" THEN IntToDigits(x.n) ELSE x.s

NA == <<"N", "/", "A">>

---------------------------------------------------------------------------
(* Date-times.                                                             *)

\* ahora.weekday(): day 0 of the model is a Monday.
weekday(t) == t.day % 7

\* int(ahora.strftime('%Y%m%d')), for the days of November 2025 from the 3rd.
fecha_gtfs(t) == 20251103 + t.day

\* ahora.strftime('%H:%M:%S')
strftime_HMS(t) ==
    TwoDigits(t.h) \o <<":">> \o TwoDigits(t.m) \o <<":">> \o TwoDigits(t.s)

\* Position on the time line, in half seconds.
Ticks(t) == ((((t.day * 24 + t.h) * 60 + t.m) * 60 + t.s) * 2) + t.us

\* dt.replace(hour=h, minute=m, second=0, microsecond=0)
ReplaceHM(t, h, m) == [t EXCEPT !.h = h, !.m = m, !.s = 0, !.us = 0]

\* dt + timedelta(days=n)
AddDays(t, n) == [t EXCEPT !.day = @ + n]

\* int((a - b).total_seconds() // 60)
MinutesBetween(a, b) == (Ticks(a) - Ticks(b)) \div 120

\* datetime.strptime(s, '%H:%M') succeeds: two-digit hour below 24, a colon,
\* two-digit minute below 60, and nothing else.
StrptimeOK(s) ==
    /\ Len(s) = 5
    /\ IsDigit(s[1]) /\ IsDigit(s[2]) /\ s[3] = ":"
    /\ IsDigit(s[4]) /\ IsDigit(s[5])
    /\ DigitsToInt(SubSeq(s, 1, 2)) < 24
    /\ DigitsToInt(SubSeq(s, 4, 5)) < 60

\* [int(p) for p in s.split(':')] of a zero-padded HH:MM:SS text
SplitHour(s) == DigitsToInt(SubSeq(s, 1, 2))
SplitMinute(s) == DigitsToInt(SubSeq(s, 4, 5))

---------------------------------------------------------------------------
(* The GTFS feed on disk (RUTA_GTFS) and the configured identifiers.       *)

\* HH:MM:SS text of a stop_times row; GTFS writes hours past 23 as they are.
HMS(h, m, s) == TwoDigits(h) \o <<":">> \o TwoDigits(m) \o <<":">> \o TwoDigits(s)

\* stops.txt: one existing stop with trips on working days, one served only
\* by the weekend service.
StopsTable ==
    << [stop_id |-> 14165, stop_name |-> "Estacio"],
       [stop_id |-> 7,     stop_name |-> "Plaza"] >>

\* routes.txt; trips of route N9 have no row here.
RoutesTable ==
    << [route_id |-> "L1", route_short_name |-> "L1", route_long_name |-> "Linia 1"],
       [route_id |-> "R4", route_short_name |-> "R4", route_long_name |-> "Rodalies 4"] >>

\* trips.txt
TripsTable ==
    << [trip_id |-> 1, service_id |-> "WK", route_id |-> "R4", trip_headsign |-> "Martorell"],
       [trip_id |-> 2, service_id |-> "WK", route_id |-> "R4", trip_headsign |-> "Manresa"],
       [trip_id |-> 3, service_id |-> "WK", route_id |-> "R4", trip_headsign |-> "Martorell"],
       [trip_id |-> 4, service_id |-> "WK", route_id |-> "L1", trip_headsign |-> "Centre"],
       [trip_id |-> 5, service_id |-> "X",  route_id |-> "N9", trip_headsign |-> "Aeroport"],
       [trip_id |-> 6, service_id |-> "WE", route_id |-> "L1", trip_headsign |-> "Centre"],
       [trip_id |-> 8, service_id |-> "WK", route_id |-> "R4", trip_headsign |-> "Manresa"] >>

\* stop_times.txt
StopTimesTable ==
    << [trip_id |-> 3, stop_id |-> 14165, departure_time |-> HMS(24, 5, 0)],
       [trip_id |-> 2, stop_id |-> 14165, departure_time |-> HMS(8, 20, 0)],
       [trip_id |-> 1, stop_id |-> 14165, departure_time |-> HMS(8, 10, 0)],
       [trip_id |-> 4, stop_id |-> 14165, departure_time |-> HMS(8, 0, 0)],
       [trip_id |-> 8, stop_id |-> 14165, departure_time |-> HMS(8, 0, 30)],
       [trip_id |-> 5, stop_id |-> 14165, departure_time |-> HMS(23, 55, 0)],
       [trip_id |-> 6, stop_id |-> 7,     departure_time |-> HMS(8, 0, 0)] >>

\* calendar.txt: flags are the columns monday..sunday.  The weekend service
\* has a date range that ended in 2024.
CalendarTable ==
    { [service_id |-> "WK", flags |-> <<1, 1, 1, 1, 1, 0, 0>>,
       start_date |-> 20251101, end_date |-> 20251130],
      [service_id |-> "WE", flags |-> <<0, 0, 0, 0, 0, 1, 1>>,
       start_date |-> 20240101, end_date |-> 20241231] }

\* Rows calendar_dates.txt may hold: exceptions of Monday 2025-11-03.
ExceptionRows ==
    { [service_id |-> "X",  date |-> 20251103, exception_type |-> 1],
      [service_id |-> "WK", date |-> 20251103, exception_type |-> 2] }

\* Rows calendar.txt may hold when the Service-Day Resolver is checked on
\* its own: the two above and a service of every day whose range ended.
CalendarRowsWide ==
    CalendarTable \cup
    { [service_id |-> "OLD", flags |-> <<1, 1, 1, 1, 1, 1, 1>>,
       start_date |-> 20240101, end_date |-> 20241231] }

\* Rows calendar_dates.txt may hold there: a service both added and removed
\* on the Monday, and an exception of the Tuesday.
ExceptionRowsWide ==
    ExceptionRows \cup
    { [service_id |-> "X",   date |-> 20251103, exception_type |-> 2],
      [service_id |-> "WK",  date |-> 20251103, exception_type |-> 1],
      [service_id |-> "OLD", date |-> 20251103, exception_type |-> 2],
      [service_id |-> "WK",  date |-> 20251104, exception_type |-> 2] }

\* The tables read from the files, calendar_dates.txt holding `cd`.
Feed(cd) ==
    [ present |-> TRUE,
      stops |-> StopsTable, stop_times |-> StopTimesTable, trips |-> TripsTable,
      calendar |-> CalendarTable, calendar_dates |-> cd, routes |-> RoutesTable ]

\* A file of RUTA_GTFS is missing.
MissingFiles ==
    [ present |-> FALSE,
      stops |-> <<>>, stop_times |-> <<>>, trips |-> <<>>,
      calendar |-> {}, calendar_dates |-> {}, routes |-> <<>> ]

\* GTFS_DATA = None
NoneData == MissingFiles

\* The order of Python's str on the route ids and headsigns of the feed,
\* which is the order pandas' groupby lists its groups in.
Alfabetico == <<"Aeroport", "Centre", "L1", "Manresa", "Martorell", "N9", "R4">>

Rank(s) == CHOOSE k \in 1..Len(Alfabetico) : Alfabetico[k] = s

\* The instants the clock is read at.
Clocks ==
    { [day |-> 0, h |-> 7,  m |-> 50, s |-> 0,  us |-> 0],
      [day |-> 0, h |-> 8,  m |-> 0,  s |-> 10, us |-> 0],
      [day |-> 0, h |-> 8,  m |-> 5,  s |-> 0,  us |-> 0],
      [day |-> 0, h |-> 8,  m |-> 5,  s |-> 30, us |-> 1],
      [day |-> 0, h |-> 23, m |-> 50, s |-> 0,  us |-> 0],
      [day |-> 0, h |-> 23, m |-> 50, s |-> 20, us |-> 1],
      [day |-> 0, h |-> 23, m |-> 59, s |-> 59, us |-> 0],
      [day |-> 1, h |-> 0,  m |-> 0,  s |-> 0,  us |-> 0],
      [day |-> 5, h |-> 8,  m |-> 5,  s |-> 0,  us |-> 0] }

\* A later read of the clock in the same request.
ClocksAfter(t) ==
    { c \in Clocks : Ticks(t) <= Ticks(c) /\ Ticks(c) <= Ticks(t) + 2 * MaxDrift }

TUS_14165 == <<"T", "U", "S", "_", "1", "4", "1", "6", "5">>

\* The identifiers a group's "stops" list is written with.
RawIds ==
    { JInt(14165), JInt(7), JStr(TUS_14165), JStr(<<"T", "U", "S">>),
      JStr(<<" ", "T", "U", "S">>), JStr(<<"9", "9", "9">>) }

RECURSIVE SeqsUpTo(_, _)
\* The sequences over S of length at most n.
SeqsUpTo(S, n) ==
    IF n = 0 THEN {<<>>}
    ELSE LET shorter == SeqsUpTo(S, n - 1)
         IN shorter \cup {Append(q, x) : q \in {r \in shorter : Len(r) = n - 1}, x \in S}

StopLists == SeqsUpTo(RawIds, MaxStops)

---------------------------------------------------------------------------
(* pandas and the standard library.                                        *)

\* sorted(seq, key=...) and sort_values: the stable ascending order of seq,
\* lt[a][b] saying whether the key of seq[a] is below the key of seq[b].
StableSort(seq, lt) ==
    LET n == Len(seq)
        Before(a, b) == lt[a][b] \/ (~lt[b][a] /\ a < b)
        pos(k) == Cardinality({q \in 1..n : q # k /\ Before(q, k)}) + 1
    IN [p \in 1..n |-> seq[CHOOSE k \in 1..n : pos(k) = p]]

RECURSIVE Concat(_)
\* The concatenation of a sequence of sequences.
Concat(ss) == IF Len(ss) = 0 THEN <<>> ELSE Head(ss) \o Concat(Tail(ss))

\* pd.merge(left, right, on=key, how='inner') of stop_times with trips
MergeInner(stop_times_df, trips_df) ==
    Concat([k \in 1..Len(stop_times_df) |->
        LET st == stop_times_df[k]
            matching == SelectSeq(trips_df, LAMBDA tr : tr.trip_id = st.trip_id)
        IN [q \in 1..Len(matching) |->
               [trip_id |-> st.trip_id, stop_id |-> st.stop_id,
                departure_time |-> st.departure_time,
                service_id |-> matching[q].service_id,
                route_id |-> matching[q].route_id,
                trip_headsign |-> matching[q].trip_headsign]]])

\* df['stop_id'] == parada_id: a text never equals a number of the column.
SameStop(stop_id, pid) == pid.kind = "int" /\ pid.n = stop_id

---------------------------------------------------------------------------
(* load_gtfs_data and the Service-Day Resolver.                            *)

\* load_gtfs_data(): the value GTFS_DATA holds after the call, `data` being
\* what it held before and `files` what RUTA_GTFS holds.
load_gtfs_data(data, files) ==
    IF data # NoneData THEN data
    ELSE IF files.present THEN files
    ELSE NoneData

\* How many times a call of load_gtfs_data() runs the body that reads the
\* files (and prints "Cargando y pre-procesando datos GTFS..."), `data`
\* being what GTFS_DATA holds at the call.
lee_archivos(data) == IF data # NoneData THEN 0 ELSE 1

\* Mutant: the cancelled services are taken out before the added ones are
\* put in.
ServiciosActivos_mut(calendar_df, calendar_dates_df, t) ==
    LET hoy == {r \in calendar_dates_df : r.date = fecha_gtfs(t)}
        servicios_base ==
            {c.service_id : c \in {r \in calendar_df : r.flags[weekday(t) + 1] = 1}}
        servicios_anadidos == {c.service_id : c \in {r \in hoy : r.exception_type = 1}}
        servicios_cancelados == {c.service_id : c \in {r \in hoy : r.exception_type = 2}}
    IN (servicios_base \ servicios_cancelados) \cup servicios_anadidos

\* servicios_activos of process_schedules_for_stops at instant t.
ServiciosActivos(calendar_df, calendar_dates_df, t) ==
    LET dia_hoy_columna == weekday(t) + 1
        fecha_hoy_gtfs == fecha_gtfs(t)
        servicios_base ==
            {c.service_id : c \in {r \in calendar_df : r.flags[dia_hoy_columna] = 1}}
        servicios_anadidos ==
            {c.service_id : c \in {r \in calendar_dates_df :
                r.date = fecha_hoy_gtfs /\ r.exception_type = 1}}
        servicios_cancelados ==
            {c.service_id : c \in {r \in calendar_dates_df :
                r.date = fecha_hoy_gtfs /\ r.exception_type = 2}}
    IN (servicios_base \cup servicios_anadidos) \ servicios_cancelados

\* Mutant: the early return on an empty set is missing.
SinServicio_mut(servicios) == FALSE

\* `if not servicios_activos`
SinServicio(servicios) == servicios = {}

\* df_horarios_base: stop_times joined with the trips of the active services.
HorariosBase(gtfs_data, servicios) ==
    LET trips_hoy == SelectSeq(gtfs_data.trips, LAMBDA tr : tr.service_id \in servicios)
    IN MergeInner(gtfs_data.stop_times, trips_hoy)

---------------------------------------------------------------------------
(* The Stop Line Enumerator and the Next-Departure Calculator.             *)

\* obtener_lineas_id_parada: the tuples (route_id, route_short_name,
\* trip_headsign) of the stop, in groupby's order.
obtener_lineas_id_parada(pid, df_horarios_base, routes_df) ==
    LET df_parada == SelectSeq(df_horarios_base, LAMBDA r : SameStop(r.stop_id, pid))
        grupos == {<<df_parada[k].route_id, df_parada[k].trip_headsign>> :
                      k \in 1..Len(df_parada)}
        GrupoLT(a, b) ==
            \/ Rank(a[1]) < Rank(b[1])
            \/ a[1] = b[1] /\ Rank(a[2]) < Rank(b[2])
        rutas_por_destino ==
            [p \in 1..Cardinality(grupos) |->
                CHOOSE g \in grupos : Cardinality({o \in grupos : GrupoLT(o, g)}) = p - 1]
    IN Concat([p \in 1..Len(rutas_por_destino) |->
           LET g == rutas_por_destino[p]
               nombres == SelectSeq(routes_df, LAMBDA rt : rt.route_id = g[1])
           IN IF Len(nombres) = 0
              THEN << <<g[1], "NaN", g[2]>> >>
              ELSE [q \in 1..Len(nombres) |-> <<g[1], nombres[q].route_short_name, g[2]>>]])

\* Mutant: the rows are not filtered by the time of day.
proximos_horarios_mut(df_linea, tiempo_actual_str) ==
    LET ordenados == StableSort(df_linea,
                       [a \in 1..Len(df_linea) |-> [b \in 1..Len(df_linea) |->
                           StrGT(df_linea[b].departure_time, df_linea[a].departure_time)]])
    IN SubSeq(ordenados, 1, Min2(2, Len(ordenados)))

\* proximos_horarios: the rows of the group that leave after
\* tiempo_actual_str, by departure_time, the first two.
proximos_horarios(df_linea, tiempo_actual_str) ==
    LET despues == SelectSeq(df_linea,
                       LAMBDA r : StrGT(r.departure_time, tiempo_actual_str))
        ordenados == StableSort(despues,
                       [a \in 1..Len(despues) |-> [b \in 1..Len(despues) |->
                           StrGT(despues[b].departure_time, despues[a].departure_time)]])
    IN SubSeq(ordenados, 1, Min2(2, Len(ordenados)))

\* Mutant: replace() is called without second=0, microsecond=0.
MinutosOrdinario_mut(proximo_hora_str, t) ==
    LET candidato == [t EXCEPT !.h = SplitHour(proximo_hora_str),
                               !.m = SplitMinute(proximo_hora_str)]
        dt_proximo == IF Ticks(candidato) < Ticks(t) THEN AddDays(candidato, 1)
                      ELSE candidato
    IN MinutesBetween(dt_proximo, t)

\* minutos_restantes of a departure strptime accepts.
MinutosOrdinario(proximo_hora_str, t) ==
    LET candidato == ReplaceHM(t, SplitHour(proximo_hora_str), SplitMinute(proximo_hora_str))
        dt_proximo == IF Ticks(candidato) < Ticks(t) THEN AddDays(candidato, 1)
                      ELSE candidato
    IN MinutesBetween(dt_proximo, t)

\* minutos_restantes of a departure strptime rejects ("24:05:00"), in the
\* copy: t2 is the clock read again for ahora_comparacion.
MinutosExtendido(departure_time, t, t2) ==
    LET horas_gtfs == SplitHour(departure_time)
        minutos_gtfs == SplitMinute(departure_time)
        ahora_comparacion == ReplaceHM(t2, t.h, t.m)
        candidato == ReplaceHM(t, horas_gtfs % 24, minutos_gtfs)
        conDias == IF horas_gtfs >= 24 THEN AddDays(candidato, horas_gtfs \div 24)
                   ELSE candidato
        dt_proximo == IF Ticks(conDias) < Ticks(ahora_comparacion)
                      THEN AddDays(conDias, 1) ELSE conDias
    IN MinutesBetween(dt_proximo, ahora_comparacion)

MinNA == [na |-> TRUE, v |-> 0]
MinVal(n) == [na |-> FALSE, v |-> n]

\* Mutant: the entry starts with 0 minutes instead of 'N/A'.
EntradaInicial_mut(v, route_short_name, trip_headsign) ==
    [ linea |-> route_short_name,
      proximo_bus |-> NA,
      siguiente_bus |-> NA,
      destino |-> IF v = "copy" THEN trip_headsign ELSE "N/A",
      minutos_restantes |-> [na |-> FALSE, v |-> 0] ]

\* resultado_linea as first built: every field 'N/A', except that the copy
\* fills destino at once.
EntradaInicial(v, route_short_name, trip_headsign) ==
    [ linea |-> route_short_name,
      proximo_bus |-> NA,
      siguiente_bus |-> NA,
      destino |-> IF v = "copy" THEN trip_headsign ELSE "N/A",
      minutos_restantes |-> MinNA ]

\* One pass of the loop of calcular_proximos_buses over lineas_con_destino:
\* what it appends to resultados_por_linea, nothing when it takes `continue`.
resultado_linea(v, pid, linea, df_horarios_base, t, t2) ==
    LET df_linea == SelectSeq(df_horarios_base,
                       LAMBDA r : /\ SameStop(r.stop_id, pid)
                                  /\ r.route_id = linea[1]
                                  /\ r.trip_headsign = linea[3])
        proximos == proximos_horarios(df_linea, strftime_HMS(t))
        inicial == EntradaInicial(v, linea[2], linea[3])
    IN IF Len(proximos) = 0 THEN <<inicial>>
       ELSE
         LET proximo_hora_str == Prefix(proximos[1].departure_time, 5)
             siguiente_hora_str ==
                 IF Len(proximos) > 1 THEN Prefix(proximos[2].departure_time, 5) ELSE NA
         IN IF ~StrptimeOK(proximo_hora_str) /\ v = "app" THEN <<>>
            ELSE
              LET minutos ==
                      IF StrptimeOK(proximo_hora_str)
                      THEN MinutosOrdinario(proximo_hora_str, t)
                      ELSE MinutosExtendido(proximos[1].departure_time, t, t2)
              IN << [ linea |-> linea[2],
                      proximo_bus |-> proximo_hora_str,
                      siguiente_bus |-> siguiente_hora_str,
                      destino |-> linea[3],
                      minutos_restantes |-> MinVal(minutos) ] >>

\* How many times that pass calls datetime.datetime.now: once in the copy
\* when strptime rejects the next departure, never otherwise.
lee_reloj(v, pid, linea, df_horarios_base, t) ==
    LET df_linea == SelectSeq(df_horarios_base,
                       LAMBDA r : /\ SameStop(r.stop_id, pid)
                                  /\ r.route_id = linea[1]
                                  /\ r.trip_headsign = linea[3])
        proximos == proximos_horarios(df_linea, strftime_HMS(t))
    IN IF /\ v = "copy"
          /\ Len(proximos) > 0
          /\ ~StrptimeOK(Prefix(proximos[1].departure_time, 5))
       THEN 1 ELSE 0

\* Mutant: the entries with minutes are kept in the order computed.
horarios_ordenados_mut(horarios) ==
    SelectSeq(horarios, LAMBDA res : ~res.minutos_restantes.na)

\* horarios_ordenados: the entries with minutes, soonest first.
horarios_ordenados(horarios) ==
    LET horarios_validos == SelectSeq(horarios, LAMBDA res : ~res.minutos_restantes.na)
    IN StableSort(horarios_validos,
                  [a \in 1..Len(horarios_validos) |-> [b \in 1..Len(horarios_validos) |->
                      horarios_validos[a].minutos_restantes.v
                          < horarios_validos[b].minutos_restantes.v]])

---------------------------------------------------------------------------
(* The Multi-Stop Orchestrator.                                            *)

\* The copy's conversion of a raw identifier: [ok, pid, texto].  The branch
\* where int(numeric_part) raises cannot be taken: numeric_part holds
\* decimal digits only.
Normalizar(parada_id_raw) ==
    LET parada_id_str == Strip(Str(parada_id_raw))
        numeric_part == OnlyDigits(parada_id_str)
    IN IF IntParses(parada_id_str)
       THEN [ok |-> TRUE, pid |-> JInt(IntValue(parada_id_str)), texto |-> parada_id_str]
       ELSE IF Len(numeric_part) > 0
       THEN [ok |-> TRUE, pid |-> JInt(DigitsToInt(numeric_part)), texto |-> parada_id_str]
       ELSE [ok |-> FALSE, pid |-> JInt(0), texto |-> parada_id_str]

\* stops_df.loc[stops_df['stop_id'] == parada_id, 'stop_name']
NombresParada(stops_df, pid) ==
    LET filas == SelectSeq(stops_df, LAMBDA r : SameStop(r.stop_id, pid))
    IN [k \in 1..Len(filas) |-> filas[k].stop_name]

\* {'error': ...}
ErrorObj(clase) ==
    [ claves |-> {"error"}, error |-> clase, nombre_parada |-> "", stop_id |-> <<>>,
      horarios |-> <<>>, horarios_ordenados |-> <<>> ]

\* The value stored for a stop that was found: the dict calcular_proximos_buses
\* returned plus 'horarios_ordenados' in app.py, a new dict in the copy.
ResultObj(v, nombre_parada, parada_id_raw, horarios) ==
    IF v = "copy"
    THEN [ claves |-> {"nombre_parada", "stop_id", "horarios_ordenados"},
           error |-> "", nombre_parada |-> nombre_parada, stop_id |-> Str(parada_id_raw),
           horarios |-> <<>>, horarios_ordenados |-> horarios_ordenados(horarios) ]
    ELSE [ claves |-> {"nombre_parada", "horarios", "horarios_ordenados"},
           error |-> "", nombre_parada |-> nombre_parada, stop_id |-> <<>>,
           horarios |-> horarios, horarios_ordenados |-> horarios_ordenados(horarios) ]

\* d[key] = value on a dict
DictSet(d, key, value) == (key :> value) @@ d

EmptyDict == <<>>

\* What process_schedules_for_stops returns: the message or the mapping.
Mensaje == [kind |-> "str", map |-> EmptyDict]
Mapping(d) == [kind |-> "dict", map |-> d]
NoResult == [kind |-> "none", map |-> EmptyDict]

NoResponse == [status |-> 0, error |-> "", body |-> NoResult]

\* jsonify({"error": ...}), status
ErrorResponse(status, clase) == [status |-> status, error |-> clase, body |-> NoResult]

NoClock == [day |-> 0, h |-> 0, m |-> 0, s |-> 0, us |-> 0]

\* No lat and lon: the request is not one of GET /api/nearest.
NoPos == [given |-> FALSE, lat |-> 0, lon |-> 0]

---------------------------------------------------------------------------
(* The state machine: one request to GET /api/bus/<group_name> at a time.  *)

Init ==
    /\ variant \in {"app", "copy"}
    /\ archivos \in {MissingFiles} \cup {Feed(cd) : cd \in SUBSET ExceptionRows}
    /\ GTFS_DATA = NoneData
    /\ initial_setup_done = FALSE
    /\ pc \in {"main", "idle"}
    /\ paradas_a_procesar = <<>>
    /\ ahora = NoClock
    /\ servicios_activos = {}
    /\ idx = 0
    /\ parada_id = JInt(0)
    /\ lineas_con_destino = <<>>
    /\ lin = 0
    /\ resultados_por_linea = <<>>
    /\ resultados_totales = EmptyDict
    /\ resultados = NoResult
    /\ response = NoResponse
    /\ cargas = 0
    /\ lecturas_reloj = 0
    /\ user_config = <<>>
    /\ user_pos = NoPos
    /\ hilos = <<>>

\* `if __name__ == '__main__': load_gtfs_data()`: the process was started as
\* a script (pc = "main"); under a WSGI server the module is only imported.
main ==
    /\ pc = "main"
    /\ GTFS_DATA' = load_gtfs_data(GTFS_DATA, archivos)
    /\ cargas' = cargas + lee_archivos(GTFS_DATA)
    /\ pc' = "idle"
    /\ UNCHANGED <<variant, archivos, initial_setup_done, paradas_a_procesar, ahora,
                   servicios_activos, idx, parada_id, lineas_con_destino, lin,
                   resultados_por_linea, resultados_totales, resultados, response,
                   lecturas_reloj, user_config, user_pos, hilos>>

\* The environment: the files missing under RUTA_GTFS are put in place
\* between two requests.
archivos_restaurados ==
    /\ pc = "idle"
    /\ archivos = MissingFiles
    /\ archivos' \in {Feed(cd) : cd \in SUBSET ExceptionRows}
    /\ UNCHANGED <<variant, GTFS_DATA, initial_setup_done, pc, paradas_a_procesar,
                   ahora, servicios_activos, idx, parada_id, lineas_con_destino, lin,
                   resultados_por_linea, resultados_totales, resultados, response,
                   cargas, lecturas_reloj, user_config, user_pos, hilos>>

\* @app.before_request
run_once_setup ==
    /\ pc = "idle"
    /\ pc' = "route"
    /\ IF ~initial_setup_done
       THEN /\ GTFS_DATA' = load_gtfs_data(GTFS_DATA, archivos)
            /\ cargas' = cargas + lee_archivos(GTFS_DATA)
            /\ initial_setup_done' = TRUE
       ELSE UNCHANGED <<GTFS_DATA, initial_setup_done, cargas>>
    /\ UNCHANGED <<variant, archivos, paradas_a_procesar, ahora, servicios_activos,
                   idx, parada_id, lineas_con_destino, lin, resultados_por_linea,
                   resultados_totales, resultados, response>>
    /\ UNCHANGED <<lecturas_reloj, user_config, user_pos, hilos>>

\* The decorator of the copy's get_bus_schedule, which fetches the remote
\* configuration and looks the user key up: "" when user_config is handed on.
load_config_and_handle_errors(fetch_ok, key_known) ==
    IF ~fetch_ok THEN ErrorResponse(500, "config_remota")
    ELSE IF ~key_known THEN ErrorResponse(404, "clave")
    ELSE NoResponse

\* Mutant: the test `if GTFS_DATA is None` is missing.
RespuestaTemprana_mut(v, gtfs_data, key_given, fetch_ok, key_known, group_known, stops) ==
    IF v = "app"
    THEN IF ~key_given THEN ErrorResponse(400, "falta_key")
         ELSE IF ~fetch_ok THEN ErrorResponse(500, "excepcion")
         ELSE IF ~key_known THEN ErrorResponse(404, "clave")
         ELSE IF ~group_known THEN ErrorResponse(404, "grupo")
         ELSE IF Len(stops) = 0 THEN ErrorResponse(400, "sin_paradas")
         ELSE NoResponse
    ELSE IF load_config_and_handle_errors(fetch_ok, key_given /\ key_known) # NoResponse
         THEN load_config_and_handle_errors(fetch_ok, key_given /\ key_known)
         ELSE IF ~group_known THEN ErrorResponse(404, "grupo")
         ELSE IF Len(stops) = 0 THEN ErrorResponse(400, "sin_paradas")
         ELSE NoResponse

\* get_bus_schedule up to the call of process_schedules_for_stops: the
\* response of an early return, NoResponse when the call is made.
RespuestaTemprana(v, gtfs_data, key_given, fetch_ok, key_known, group_known, stops) ==
    IF v = "app"
    THEN IF ~key_given THEN ErrorResponse(400, "falta_key")
         ELSE IF gtfs_data = NoneData THEN ErrorResponse(500, "gtfs_no_cargados")
         ELSE IF ~fetch_ok THEN ErrorResponse(500, "excepcion")
         ELSE IF ~key_known THEN ErrorResponse(404, "clave")
         ELSE IF ~group_known THEN ErrorResponse(404, "grupo")
         ELSE IF Len(stops) = 0 THEN ErrorResponse(400, "sin_paradas")
         ELSE NoResponse
    ELSE IF load_config_and_handle_errors(fetch_ok, key_given /\ key_known) # NoResponse
         THEN load_config_and_handle_errors(fetch_ok, key_given /\ key_known)
         ELSE IF gtfs_data = NoneData THEN ErrorResponse(500, "gtfs_no_cargados")
         ELSE IF ~group_known THEN ErrorResponse(404, "grupo")
         ELSE IF Len(stops) = 0 THEN ErrorResponse(400, "sin_paradas")
         ELSE NoResponse

\* GET /api/bus/<group_name>: the checks before the schedules are computed.
get_bus_schedule ==
    /\ pc = "route"
    /\ \E key_given \in BOOLEAN, fetch_ok \in BOOLEAN, key_known \in BOOLEAN,
          group_known \in BOOLEAN, stops \in StopLists :
          LET temprana == RespuestaTemprana(variant, GTFS_DATA, key_given, fetch_ok,
                                            key_known, group_known, stops)
          IN IF temprana # NoResponse
             THEN /\ response' = temprana
                  /\ pc' = "done"
                  /\ UNCHANGED paradas_a_procesar
             ELSE /\ paradas_a_procesar' = stops
                  /\ pc' = "pss"
                  /\ UNCHANGED response
    /\ UNCHANGED <<variant, archivos, GTFS_DATA, initial_setup_done, ahora,
                   servicios_activos, idx, parada_id, lineas_con_destino, lin,
                   resultados_por_linea, resultados_totales, resultados>>
    /\ UNCHANGED <<cargas, lecturas_reloj, user_config, user_pos, hilos>>

\* process_schedules_for_stops, from its entry to the loop over the stops:
\* the clock is read, the active services are resolved.
process_schedules_for_stops ==
    /\ pc = "pss"
    /\ \E t \in Clocks :
          LET activos == ServiciosActivos(GTFS_DATA.calendar, GTFS_DATA.calendar_dates, t)
          IN /\ ahora' = t
             /\ lecturas_reloj' = lecturas_reloj + 1
             /\ servicios_activos' = activos
             /\ IF SinServicio(activos)
                THEN /\ resultados' = Mensaje
                     /\ pc' = "ret"
                     /\ UNCHANGED <<idx, resultados_totales>>
                ELSE /\ resultados_totales' = EmptyDict
                     /\ idx' = 1
                     /\ pc' = "stops"
                     /\ UNCHANGED resultados
    /\ UNCHANGED <<variant, archivos, GTFS_DATA, initial_setup_done,
                   paradas_a_procesar, parada_id, lineas_con_destino, lin,
                   resultados_por_linea, response>>
    /\ UNCHANGED <<cargas, user_config, user_pos, hilos>>

\* One pass of the loop over paradas_a_procesar, up to the call of
\* calcular_proximos_buses: the identifier is converted and looked up.
pss_parada ==
    /\ pc = "stops"
    /\ idx <= Len(paradas_a_procesar)
    /\ LET parada_id_raw == paradas_a_procesar[idx]
           norm == IF variant = "copy" THEN Normalizar(parada_id_raw)
                   ELSE [ok |-> TRUE, pid |-> parada_id_raw, texto |-> <<>>]
           nombres == NombresParada(GTFS_DATA.stops, norm.pid)
       IN IF ~norm.ok
          THEN /\ resultados_totales' =
                      DictSet(resultados_totales, JStr(norm.texto), ErrorObj("no_numerico"))
               /\ idx' = idx + 1
               /\ UNCHANGED <<pc, parada_id, lineas_con_destino, lin, resultados_por_linea>>
          ELSE IF Len(nombres) = 0
          THEN /\ resultados_totales' =
                      DictSet(resultados_totales, parada_id_raw, ErrorObj("no_encontrado"))
               /\ idx' = idx + 1
               /\ UNCHANGED <<pc, parada_id, lineas_con_destino, lin, resultados_por_linea>>
          ELSE /\ parada_id' = norm.pid
               /\ lineas_con_destino' =
                      obtener_lineas_id_parada(norm.pid,
                          HorariosBase(GTFS_DATA, servicios_activos), GTFS_DATA.routes)
               /\ lin' = 1
               /\ resultados_por_linea' = <<>>
               /\ pc' = "lineas"
               /\ UNCHANGED <<idx, resultados_totales>>
    /\ UNCHANGED <<variant, archivos, GTFS_DATA, initial_setup_done,
                   paradas_a_procesar, ahora, servicios_activos, resultados, response>>
    /\ UNCHANGED <<cargas, lecturas_reloj, user_config, user_pos, hilos>>

\* One pass of the loop of calcular_proximos_buses over lineas_con_destino.
calcular_proximos_buses ==
    /\ pc = "lineas"
    /\ lin <= Len(lineas_con_destino)
    /\ \E t2 \in ClocksAfter(ahora) :
          resultados_por_linea' = resultados_por_linea \o
              resultado_linea(variant, parada_id, lineas_con_destino[lin],
                              HorariosBase(GTFS_DATA, servicios_activos), ahora, t2)
    /\ lecturas_reloj' = lecturas_reloj +
          lee_reloj(variant, parada_id, lineas_con_destino[lin],
                    HorariosBase(GTFS_DATA, servicios_activos), ahora)
    /\ lin' = lin + 1
    /\ UNCHANGED <<variant, archivos, GTFS_DATA, initial_setup_done, pc,
                   paradas_a_procesar, ahora, servicios_activos, idx, parada_id,
                   lineas_con_destino, resultados_totales, resultados, response>>
    /\ UNCHANGED <<cargas, user_config, user_pos, hilos>>

\* The rest of the pass over paradas_a_procesar once calcular_proximos_buses
\* has returned: the entries with minutes are sorted and the stop is stored.
pss_ordenar ==
    /\ pc = "lineas"
    /\ lin > Len(lineas_con_destino)
    /\ LET parada_id_raw == paradas_a_procesar[idx]
           nombre_parada == NombresParada(GTFS_DATA.stops, parada_id)[1]
           clave == IF variant = "copy" THEN JStr(Str(parada_id_raw)) ELSE parada_id_raw
       IN resultados_totales' =
              DictSet(resultados_totales, clave,
                      ResultObj(variant, nombre_parada, parada_id_raw, resultados_por_linea))
    /\ idx' = idx + 1
    /\ pc' = "stops"
    /\ UNCHANGED <<variant, archivos, GTFS_DATA, initial_setup_done,
                   paradas_a_procesar, ahora, servicios_activos, parada_id,
                   lineas_con_destino, lin, resultados_por_linea, resultados, response>>
    /\ UNCHANGED <<cargas, lecturas_reloj, user_config, user_pos, hilos>>

\* return resultados_totales
pss_return ==
    /\ pc = "stops"
    /\ idx > Len(paradas_a_procesar)
    /\ resultados' = Mapping(resultados_totales)
    /\ pc' = "ret"
    /\ UNCHANGED <<variant, archivos, GTFS_DATA, initial_setup_done,
                   paradas_a_procesar, ahora, servicios_activos, idx, parada_id,
                   lineas_con_destino, lin, resultados_por_linea, resultados_totales,
                   response>>
    /\ UNCHANGED <<cargas, lecturas_reloj, user_config, user_pos, hilos>>

\* The response get_bus_schedule makes of what process_schedules_for_stops
\* returned.
RespuestaFinal(res) ==
    IF res.kind = "str" THEN ErrorResponse(500, "sin_servicio")
    ELSE [status |-> 200, error |-> "", body |-> res]

\* get_bus_schedule after the call of process_schedules_for_stops.
get_bus_schedule_return ==
    /\ pc = "ret"
    /\ response' = RespuestaFinal(resultados)
    /\ pc' = "done"
    /\ UNCHANGED <<variant, archivos, GTFS_DATA, initial_setup_done,
                   paradas_a_procesar, ahora, servicios_activos, idx, parada_id,
                   lineas_con_destino, lin, resultados_por_linea, resultados_totales,
                   resultados>>
    /\ UNCHANGED <<cargas, lecturas_reloj, user_config, user_pos, hilos>>

\* The response is sent; the next request finds only the module globals.
siguiente_peticion ==
    /\ pc = "done"
    /\ pc' = "idle"
    /\ paradas_a_procesar' = <<>>
    /\ ahora' = NoClock
    /\ servicios_activos' = {}
    /\ idx' = 0
    /\ parada_id' = JInt(0)
    /\ lineas_con_destino' = <<>>
    /\ lin' = 0
    /\ resultados_por_linea' = <<>>
    /\ resultados_totales' = EmptyDict
    /\ resultados' = NoResult
    /\ response' = NoResponse
    /\ lecturas_reloj' = 0
    /\ user_config' = <<>>
    /\ user_pos' = NoPos
    /\ UNCHANGED <<variant, archivos, GTFS_DATA, initial_setup_done>>
    /\ UNCHANGED <<cargas, hilos>>

Next ==
    \/ main
    \/ archivos_restaurados
    \/ run_once_setup
    \/ get_bus_schedule
    \/ process_schedules_for_stops
    \/ pss_parada
    \/ calcular_proximos_buses
    \/ pss_ordenar
    \/ pss_return
    \/ get_bus_schedule_return
    \/ siguiente_peticion

Spec == Init /\ [][Next]_vars

---------------------------------------------------------------------------
(* The Service-Day Resolver on its own: the tables are loaded, a request   *)
(* has reached process_schedules_for_stops, and calendar.txt and           *)
(* calendar_dates.txt hold any rows of the wide sets.                      *)

InitServicio ==
    /\ variant \in {"app", "copy"}
    /\ archivos \in {[Feed(cd) EXCEPT !.calendar = cal] :
                        cal \in SUBSET CalendarRowsWide, cd \in SUBSET ExceptionRowsWide}
    /\ GTFS_DATA = archivos
    /\ initial_setup_done = TRUE
    /\ pc = "pss"
    /\ paradas_a_procesar = <<JInt(14165)>>
    /\ ahora = NoClock
    /\ servicios_activos = {}
    /\ idx = 0
    /\ parada_id = JInt(0)
    /\ lineas_con_destino = <<>>
    /\ lin = 0
    /\ resultados_por_linea = <<>>
    /\ resultados_totales = EmptyDict
    /\ resultados = NoResult
    /\ response = NoResponse
    /\ cargas = 1
    /\ lecturas_reloj = 0
    /\ user_config = <<>>
    /\ user_pos = NoPos
    /\ hilos = <<>>

SpecServicio == InitServicio /\ [][process_schedules_for_stops]_vars

---------------------------------------------------------------------------
(* The Geo-Nearest Resolver: GET /api/nearest.  Latitudes and longitudes   *)
(* are in tenths of a degree, distances in millimetres.                    *)

\* JSON null, and what dict.get returns for a key that is absent.
JNone == [kind |-> "none", n |-> 0, s |-> <<>>]

\* bool(x) of a JSON scalar
Truthy(x) ==
    CASE x.kind = "none" -> FALSE
      [] x.kind = "int" -> x.n # 0
      [] x.kind = "str" -> Len(x.s) > 0

RECURSIVE Split(_, _)
\* s.split(sep)
Split(s, sep) ==
    IF \A k \in 1..Len(s) : s[k] # sep THEN <<s>>
    ELSE LET p == CHOOSE k \in 1..Len(s) : s[k] = sep /\ \A j \in 1..(k - 1) : s[j] # sep
         IN <<SubSeq(s, 1, p - 1)>> \o Split(SubSeq(s, p + 1, Len(s)), sep)

\* float(s) does not raise ValueError.  The texts of the model are made of
\* digits, points, letters, blanks and ";": no sign, exponent, "nan" or "_".
FloatParses(s) ==
    LET t == Strip(s)
    IN /\ Len(OnlyDigits(t)) > 0
       /\ \A k \in 1..Len(t) : IsDigit(t[k]) \/ t[k] = "."
       /\ Cardinality({k \in 1..Len(t) : t[k] = "."}) <= 1

\* float(s), in tenths: the texts of the model have one decimal at most.
FloatValue(s) ==
    LET partes == Split(Strip(s), ".")
        decimal == IF Len(partes) > 1 /\ Len(partes[2]) > 0
                   THEN DigitVal(partes[2][1]) ELSE 0
    IN 10 * DigitsToInt(partes[1]) + decimal

\* float('inf'): above every distance on Earth.
Inf == 2000000000

\* haversine(lat1, lon1, lat2, lon2) with R = 6371, tabulated from the
\* source's formula for the points of the model.
haversine(lat1, lon1, lat2, lon2) ==
    LET d == <<lat1, lon1, lat2, lon2>>
    IN CASE d = <<410, 20, 410, 20>> -> 0
         [] d = <<410, 20, 420, 20>> -> 111194927
         [] d = <<410, 20, 410, 25>> -> 41959881
         [] d = <<416, 20, 410, 20>> -> 66716956
         [] d = <<416, 20, 420, 20>> -> 44477971
         [] d = <<416, 20, 410, 25>> -> 78712719

\* round(min_distance, 2), in hundredths of a kilometre
Round2(d) == (d + 5000) \div 10000

\* nearest_group_name: None, or the name of a group
NoGroup == [none |-> TRUE, name |-> ""]
Group(name) == [none |-> FALSE, name |-> name]

RECURSIVE nearest_loop(_, _, _, _)
\* The loop over user_config.items(): min_distance and nearest_group_name
\* once the groups of `config` have been visited.  A group is passed over
\* by `if not coords_str: continue` and by the except clause, which catches
\* the AttributeError of a coords that is no string and the ValueError of
\* float() and of unpacking other than two parts.
nearest_loop(config, user, min_distance, nearest_group_name) ==
    IF Len(config) = 0
    THEN [min_distance |-> min_distance, nearest_group_name |-> nearest_group_name]
    ELSE LET coords_str == Head(config).coords
             partes == Split(coords_str.s, ",")
             seguir == nearest_loop(Tail(config), user, min_distance, nearest_group_name)
         IN IF ~Truthy(coords_str) THEN seguir
            ELSE IF coords_str.kind # "str" THEN seguir
            ELSE IF Len(partes) # 2 THEN seguir
            ELSE IF ~FloatParses(partes[1]) \/ ~FloatParses(partes[2]) THEN seguir
            ELSE LET distance == haversine(user.lat, user.lon,
                                           FloatValue(partes[1]), FloatValue(partes[2]))
                 IN IF distance < min_distance
                    THEN nearest_loop(Tail(config), user, distance,
                                      Group(Head(config).group_name))
                    ELSE seguir

\* get_nearest_group from the loop on: the response.
nearest_response(v, config, user) ==
    LET fin == nearest_loop(config, user, Inf, NoGroup)
    IN IF ~fin.nearest_group_name.none /\ fin.nearest_group_name.name # ""
       THEN [ status |-> 200, error |-> "",
              body |-> [ kind |-> "nearest", map |-> EmptyDict,
                         nearest_group |-> fin.nearest_group_name.name,
                         distance_km |-> Round2(fin.min_distance) ] ]
       ELSE IF v = "app" THEN ErrorResponse(500, "sin_grupos_validos")
       ELSE [ status |-> 200, error |-> "",
              body |-> [kind |-> "message", map |-> EmptyDict] ]

\* get_nearest_group: the early returns, then the loop.
get_nearest_group_response(v, key_given, fetch_ok, key_known, config, user) ==
    IF v = "app"
    THEN IF ~key_given \/ ~user.given THEN ErrorResponse(400, "faltan_parametros")
         ELSE IF ~fetch_ok THEN ErrorResponse(500, "excepcion")
         ELSE IF ~key_known \/ Len(config) = 0 THEN ErrorResponse(404, "clave")
         ELSE nearest_response(v, config, user)
    ELSE IF load_config_and_handle_errors(fetch_ok, key_given /\ key_known) # NoResponse
         THEN load_config_and_handle_errors(fetch_ok, key_given /\ key_known)
         ELSE IF ~user.given THEN ErrorResponse(400, "faltan_parametros")
         ELSE nearest_response(v, config, user)

\* The "coords" a group of the configuration is written with.
CoordsValues ==
    { JNone, JStr(<<>>), JInt(41),
      JStr(<<"4", "1", ".", "0", ",", "2", ".", "0">>),
      JStr(<<"4", "2", ".", "0", ",", " ", "2", ".", "0">>),
      JStr(<<"4", "1", ",", "2", ".", "5">>),
      JStr(<<"4", "1", ".", "0", ";", "2", ".", "0">>),
      JStr(<<"4", "1", ".", "0", ",", "2", ".", "0", ",", "1", ".", "0">>),
      JStr(<<"a", "b", "c", ",", "2", ".", "0">>) }

GroupNames == {"A", "B", ""}

\* The user configurations: the groups in the order of the JSON document,
\* no name twice.
UserConfigs ==
    { c \in SeqsUpTo([group_name : GroupNames, coords : CoordsValues], MaxGroups) :
        \A a \in 1..Len(c) : \A b \in 1..Len(c) :
            a # b => c[a].group_name # c[b].group_name }

\* The lat and lon arguments of the request.
Callers ==
    { NoPos, [given |-> TRUE, lat |-> 410, lon |-> 20],
             [given |-> TRUE, lat |-> 416, lon |-> 20] }

InitNearest ==
    /\ variant \in {"app", "copy"}
    /\ archivos = Feed({})
    /\ GTFS_DATA = archivos
    /\ initial_setup_done = TRUE
    /\ pc = "route"
    /\ paradas_a_procesar = <<>>
    /\ ahora = NoClock
    /\ servicios_activos = {}
    /\ idx = 0
    /\ parada_id = JInt(0)
    /\ lineas_con_destino = <<>>
    /\ lin = 0
    /\ resultados_por_linea = <<>>
    /\ resultados_totales = EmptyDict
    /\ resultados = NoResult
    /\ response = NoResponse
    /\ cargas = 1
    /\ lecturas_reloj = 0
    /\ user_config \in UserConfigs
    /\ user_pos \in Callers
    /\ hilos = <<>>

\* GET /api/nearest
get_nearest_group ==
    /\ pc = "route"
    /\ \E key_given \in BOOLEAN, fetch_ok \in BOOLEAN, key_known \in BOOLEAN :
          response' = get_nearest_group_response(variant, key_given, fetch_ok,
                                                 key_known, user_config, user_pos)
    /\ pc' = "done"
    /\ UNCHANGED <<variant, archivos, GTFS_DATA, initial_setup_done,
                   paradas_a_procesar, ahora, servicios_activos, idx, parada_id,
                   lineas_con_destino, lin, resultados_por_linea, resultados_totales,
                   resultados, cargas, lecturas_reloj, user_config, user_pos, hilos>>

SpecNearest == InitNearest /\ [][get_nearest_group]_vars

---------------------------------------------------------------------------
(* Concurrent first requests: the server handles each request in a thread  *)
(* of its own, and every request runs run_once_setup before its view.      *)
(* Nothing in run_once_setup or load_gtfs_data takes a lock, so the        *)
(* threads interleave between any two of the steps below.                  *)

Hilos == 1..MaxHilos

\* A thread about to run run_once_setup; `leido` is what its read_csv
\* calls returned.
HiloInicial == [pc |-> "inicio", leido |-> NoneData]

InitConcurrente ==
    /\ variant \in {"app", "copy"}
    /\ archivos \in {MissingFiles} \cup {Feed(cd) : cd \in SUBSET ExceptionRows}
    /\ GTFS_DATA = NoneData
    /\ initial_setup_done = FALSE
    /\ pc = "hilos"
    /\ paradas_a_procesar = <<>>
    /\ ahora = NoClock
    /\ servicios_activos = {}
    /\ idx = 0
    /\ parada_id = JInt(0)
    /\ lineas_con_destino = <<>>
    /\ lin = 0
    /\ resultados_por_linea = <<>>
    /\ resultados_totales = EmptyDict
    /\ resultados = NoResult
    /\ response = NoResponse
    /\ cargas = 0
    /\ lecturas_reloj = 0
    /\ user_config = <<>>
    /\ user_pos = NoPos
    /\ hilos = [h \in Hilos |-> HiloInicial]

\* What the steps of a thread leave alone.
SoloHilos ==
    UNCHANGED <<variant, archivos, pc, paradas_a_procesar, ahora, servicios_activos,
                idx, parada_id, lineas_con_destino, lin, resultados_por_linea,
                resultados_totales, resultados, response, lecturas_reloj,
                user_config, user_pos>>

\* run_once_setup: `if not initial_setup_done:`
hilo_run_once_setup(h) ==
    /\ hilos[h].pc = "inicio"
    /\ hilos' = [hilos EXCEPT ![h].pc =
                    IF ~initial_setup_done THEN "load_gtfs_data" ELSE "vista"]
    /\ UNCHANGED <<GTFS_DATA, initial_setup_done, cargas>>
    /\ SoloHilos

\* load_gtfs_data: `if GTFS_DATA is not None: return GTFS_DATA`, else the
\* body starts and prints "Cargando y pre-procesando datos GTFS...".
hilo_load_gtfs_data(h) ==
    /\ hilos[h].pc = "load_gtfs_data"
    /\ hilos' = [hilos EXCEPT ![h].pc =
                    IF GTFS_DATA # NoneData THEN "hecho" ELSE "read_csv"]
    /\ cargas' = cargas + lee_archivos(GTFS_DATA)
    /\ UNCHANGED <<GTFS_DATA, initial_setup_done>>
    /\ SoloHilos

\* load_gtfs_data: the six pd.read_csv calls; FileNotFoundError returns None.
hilo_read_csv(h) ==
    /\ hilos[h].pc = "read_csv"
    /\ hilos' = [hilos EXCEPT ![h] =
                    IF archivos.present THEN [pc |-> "asignar", leido |-> archivos]
                    ELSE [pc |-> "hecho", leido |-> NoneData]]
    /\ UNCHANGED <<GTFS_DATA, initial_setup_done, cargas>>
    /\ SoloHilos

\* load_gtfs_data: `GTFS_DATA = {...}`
hilo_asignar(h) ==
    /\ hilos[h].pc = "asignar"
    /\ GTFS_DATA' = hilos[h].leido
    /\ hilos' = [hilos EXCEPT ![h].pc = "hecho"]
    /\ UNCHANGED <<initial_setup_done, cargas>>
    /\ SoloHilos

\* run_once_setup: `initial_setup_done = True`
hilo_hecho(h) ==
    /\ hilos[h].pc = "hecho"
    /\ initial_setup_done' = TRUE
    /\ hilos' = [hilos EXCEPT ![h].pc = "vista"]
    /\ UNCHANGED <<GTFS_DATA, cargas>>
    /\ SoloHilos

\* The view answers and the thread takes the next request.
hilo_vista(h) ==
    /\ hilos[h].pc = "vista"
    /\ hilos' = [hilos EXCEPT ![h] = HiloInicial]
    /\ UNCHANGED <<GTFS_DATA, initial_setup_done, cargas>>
    /\ SoloHilos

NextConcurrente ==
    \E h \in Hilos :
        \/ hilo_run_once_setup(h)
        \/ hilo_load_gtfs_data(h)
        \/ hilo_read_csv(h)
        \/ hilo_asignar(h)
        \/ hilo_hecho(h)
        \/ hilo_vista(h)

SpecConcurrente == InitConcurrente /\ [][NextConcurrente]_vars

---------------------------------------------------------------------------
(* Claims.                                                                 *)

\* process_schedules_for_stops has resolved the services of the day.
ServiciosResueltos == pc \in {"stops", "lineas", "ret"}

C1_Base ==
    {r.service_id : r \in {c \in GTFS_DATA.calendar : c.flags[weekday(ahora) + 1] = 1}}

C1_Con(tipo) ==
    {r.service_id : r \in {c \in GTFS_DATA.calendar_dates :
        c.date = fecha_gtfs(ahora) /\ c.exception_type = tipo}}

\* C1: once process_schedules_for_stops has resolved the day, the active
\* service set is exactly (services whose calendar flag of today's weekday
\* is 1, whatever their start_date and end_date) union (services with an
\* ADDED exception dated today) minus (services with a REMOVED exception
\* dated today); a service removed today is never in it.
C1_ActiveServiceSet ==
    ServiciosResueltos =>
        /\ servicios_activos = (C1_Base \cup C1_Con(1)) \ C1_Con(2)
        /\ \A sid \in C1_Con(2) : sid \notin servicios_activos

\* C1 witness: a service of the weekday rule, added and removed today, is
\* left out, while a service whose date range ended in 2024 is kept.
C1_Witness ==
    /\ ServiciosResueltos
    /\ \E sid \in C1_Base \cap C1_Con(1) \cap C1_Con(2) : sid \notin servicios_activos
    /\ \E c \in GTFS_DATA.calendar :
          /\ c.end_date < fecha_gtfs(ahora)
          /\ c.service_id \in servicios_activos


\* The rows of today's timetable for the k-th group of the stop being
\* computed, and the rows among them that leave after now's HH:MM:SS.
FilasDeGrupo(k) ==
    SelectSeq(HorariosBase(GTFS_DATA, servicios_activos),
              LAMBDA r : /\ SameStop(r.stop_id, parada_id)
                         /\ r.route_id = lineas_con_destino[k][1]
                         /\ r.trip_headsign = lineas_con_destino[k][3])

SalidasDeGrupo(k) == {FilasDeGrupo(k)[q].departure_time : q \in 1..Len(FilasDeGrupo(k))}

SalidasPosteriores(k) == {d \in SalidasDeGrupo(k) : StrGT(d, strftime_HMS(ahora))}

\* The earliest departure of the k-th group after now's HH:MM:SS.
ProximaSalida(k) ==
    CHOOSE d \in SalidasPosteriores(k) : \A o \in SalidasPosteriores(k) : ~StrGT(d, o)

\* calcular_proximos_buses has just finished the pass of a group.
GrupoProcesado == pc = "lineas" /\ lin > 1

UltimaEntrada == resultados_por_linea[Len(resultados_por_linea)]

\* C2: when the next departure of the group just computed is written with
\* an hour of 24 or more, an entry of that group with integer minutes is
\* appended (it is not dropped), and for "24:05:00" at 23:50 of the same
\* day the minutes are 15.
C2_ExtendedNotation ==
    (/\ GrupoProcesado
     /\ SalidasPosteriores(lin - 1) # {}
     /\ SplitHour(ProximaSalida(lin - 1)) >= 24)
    => /\ Len(resultados_por_linea) > 0
       /\ UltimaEntrada.linea = lineas_con_destino[lin - 1][2]
       /\ UltimaEntrada.destino = lineas_con_destino[lin - 1][3]
       /\ UltimaEntrada.proximo_bus = Prefix(ProximaSalida(lin - 1), 5)
       /\ ~UltimaEntrada.minutos_restantes.na
       /\ (ProximaSalida(lin - 1) = HMS(24, 5, 0) /\ ahora.h = 23 /\ ahora.m = 50)
             => UltimaEntrada.minutos_restantes.v = 15


HoraCero == HMS(8, 0, 0)

\* The group just computed has the single departure "08:00:00" and the
\* request's clock reads 08:05.
C3_Caso ==
    /\ GrupoProcesado
    /\ ahora.h = 8 /\ ahora.m = 5
    /\ SalidasDeGrupo(lin - 1) = {HoraCero}

\* C3 as stated: for the departure "08:00" of a group with now = 08:05:00
\* the entry of the group reports that departure, rolled to the next day,
\* with minutes_remaining 1435.
C3_RollsToNextDay ==
    (C3_Caso /\ ahora.s = 0 /\ ahora.us = 0)
    => /\ Len(resultados_por_linea) > 0
       /\ UltimaEntrada.proximo_bus = Prefix(HoraCero, 5)
       /\ UltimaEntrada.minutos_restantes = MinVal(1435)

\* C3 amended: for the departure "08:00:00" of a group with now at 08:05
\* (any seconds) the departure is not after now's HH:MM:SS text, so it is
\* filtered out and nothing rolls over: a group with no other departure gets
\* the placeholder entry, proximo_bus, siguiente_bus and minutos_restantes
\* all "N/A".
C3_FilteredOut ==
    C3_Caso
    => /\ Len(resultados_por_linea) > 0
       /\ UltimaEntrada.linea = lineas_con_destino[lin - 1][2]
       /\ UltimaEntrada.proximo_bus = NA
       /\ UltimaEntrada.siguiente_bus = NA
       /\ UltimaEntrada.minutos_restantes = MinNA

\* C3 witness: the group of route L1 at stop 14165, whose only departure is
\* "08:00:00", has been computed at 08:05:00 sharp.
C3_Witness ==
    /\ C3_Caso /\ ahora.s = 0 /\ ahora.us = 0
    /\ parada_id = JInt(14165)
    /\ UltimaEntrada.linea = "L1"
    /\ UltimaEntrada.minutos_restantes.na

\* The distinct (route_id, trip_headsign) pairs of today's timetable at the
\* stop being computed.
ParesEnParada ==
    LET base == HorariosBase(GTFS_DATA, servicios_activos)
    IN {<<base[k].route_id, base[k].trip_headsign>> :
           k \in {q \in 1..Len(base) : SameStop(base[q].stop_id, parada_id)}}

\* calcular_proximos_buses has finished its loop for the stop.
ParadaCalculada == pc = "lineas" /\ lin > Len(lineas_con_destino)

\* C4: obtener_lineas_id_parada lists exactly the distinct (route_id,
\* trip_headsign) pairs of the stop, one tuple each, and
\* calcular_proximos_buses yields one entry for each of them, in that order.
C4_SeparateEntries ==
    ParadaCalculada
    => /\ {<<lineas_con_destino[k][1], lineas_con_destino[k][3]>> :
              k \in 1..Len(lineas_con_destino)} = ParesEnParada
       /\ Len(lineas_con_destino) = Cardinality(ParesEnParada)
       /\ Len(resultados_por_linea) = Cardinality(ParesEnParada)
       /\ \A k \in 1..Len(resultados_por_linea) :
             resultados_por_linea[k].linea = lineas_con_destino[k][2]

\* process_schedules_for_stops has returned the mapping.
MapaDevuelto == pc = "ret" /\ resultados.kind = "dict"

SoloLetras == <<"T", "U", "S">>

\* C5: "TUS_14165" resolves to the stop with numeric id 14165, and "TUS",
\* which has no digit, gets an error entry in the same mapping.
C5_Normalization ==
    MapaDevuelto
    => \A k \in 1..Len(paradas_a_procesar) :
          /\ paradas_a_procesar[k] = JStr(TUS_14165)
                => \E key \in DOMAIN resultados.map :
                      /\ Str(key) = TUS_14165
                      /\ resultados.map[key].error = ""
                      /\ resultados.map[key].nombre_parada = "Estacio"
          /\ paradas_a_procesar[k] = JStr(SoloLetras)
                => \E key \in DOMAIN resultados.map :
                      /\ Str(key) = SoloLetras
                      /\ resultados.map[key].error # ""

\* C6: the mapping returned has, for every requested identifier, an entry
\* whose key is the text of exactly that identifier, an error object or a
\* result object.
C6_EveryIdentifierKeyed ==
    MapaDevuelto
    => \A k \in 1..Len(paradas_a_procesar) :
          \E key \in DOMAIN resultados.map :
             /\ Str(key) = Str(paradas_a_procesar[k])
             /\ \/ resultados.map[key].claves = {"error"}
                \/ "horarios_ordenados" \in resultados.map[key].claves

\* process_schedules_for_stops has been entered and has not been left by a
\* later request.
PssIniciado == pc \in {"stops", "lineas", "ret"} \/ (pc = "done" /\ resultados # NoResult)

\* C7: when the active service set of the day is empty,
\* process_schedules_for_stops returns the "no service today" message and
\* never enters the loop over the stops: no identifier gets an entry.
C7_NoServiceTerminal ==
    (PssIniciado /\ servicios_activos = {})
    => /\ pc \in {"ret", "done"}
       /\ resultados = Mensaje
       /\ resultados_totales = EmptyDict
       /\ resultados_por_linea = <<>>

\* C7 witness: the message has been returned for a request of two stops.
C7_Witness ==
    /\ pc = "ret"
    /\ servicios_activos = {}
    /\ resultados = Mensaje
    /\ Len(paradas_a_procesar) = 2

\* C8: the endpoint answers the no-service-today condition with a message,
\* not with an error response.
C8_NoServiceIsMessage ==
    (pc = "done" /\ resultados = Mensaje)
    => /\ response.error = ""
       /\ response.status = 200


\* How many times e occurs in seq.
Veces(e, seq) == Cardinality({k \in 1..Len(seq) : seq[k] = e})

\* a and b hold the same entries, each as many times.
MismasEntradas(a, b) ==
    /\ Len(a) = Len(b)
    /\ \A k \in 1..Len(a) : Veces(a[k], a) = Veces(a[k], b)

ConMinutos(horarios) == SelectSeq(horarios, LAMBDA res : ~res.minutos_restantes.na)

\* C9: the horarios_ordenados stored for a resolved stop holds exactly the
\* entries calcular_proximos_buses computed for it whose minutos_restantes
\* is not "N/A", in non-decreasing order of minutos_restantes.
C9_SortedResolved ==
    [][pss_ordenar =>
        \E key \in DOMAIN resultados_totales' :
            /\ Str(key) = Str(paradas_a_procesar[idx])
            /\ "horarios_ordenados" \in resultados_totales'[key].claves
            /\ LET o == resultados_totales'[key].horarios_ordenados
               IN /\ MismasEntradas(o, ConMinutos(resultados_por_linea))
                  /\ \A k \in 1..Len(o) : ~o[k].minutos_restantes.na
                  /\ \A k \in 1..(Len(o) - 1) :
                        o[k].minutos_restantes.v <= o[k + 1].minutos_restantes.v]_vars

\* C9 witness: a stop is stored whose three computed entries are one "N/A"
\* and two with minutes computed in descending order; the list stored has
\* the two, the later-computed first.
C9_Witness ==
    /\ pc = "stops"
    /\ Len(resultados_por_linea) = 3
    /\ resultados_por_linea[1].minutos_restantes.na
    /\ \E key \in DOMAIN resultados_totales :
          LET o == resultados_totales[key].horarios_ordenados
          IN /\ Len(o) = 2
             /\ o[1] = resultados_por_linea[3]
             /\ o[2] = resultados_por_linea[2]
             /\ o[1].minutos_restantes.v < o[2].minutos_restantes.v

EsPlaceholder(e) ==
    /\ e.proximo_bus = NA
    /\ e.siguiente_bus = NA
    /\ e.minutos_restantes = MinNA

\* No row of today's timetable at the stop being computed leaves after
\* now's HH:MM:SS: the stop has no row there at all, or only past ones.
SinSalidas == \A k \in 1..Len(lineas_con_destino) : SalidasPosteriores(k) = {}

\* C10: a stop of stops.txt with no trip left today is stored as a result
\* object, not an error: every entry computed for it is the "N/A"
\* placeholder, one per group, and its horarios_ordenados is empty.
C10_OnlyPlaceholders ==
    [][(pss_ordenar /\ SinSalidas) =>
        /\ Len(resultados_por_linea) = Len(lineas_con_destino)
        /\ \A k \in 1..Len(resultados_por_linea) : EsPlaceholder(resultados_por_linea[k])
        /\ \E key \in DOMAIN resultados_totales' :
              /\ Str(key) = Str(paradas_a_procesar[idx])
              /\ resultados_totales'[key].error = ""
              /\ resultados_totales'[key].nombre_parada
                    \in {StopsTable[q].stop_name : q \in 1..Len(StopsTable)}
              /\ resultados_totales'[key].horarios_ordenados = <<>>]_vars

\* C10 witness: stop 7, whose only trip of the Saturday left at 08:00, has
\* been stored at 08:05 with one placeholder entry computed and an empty
\* horarios_ordenados.
C10_Witness ==
    /\ pc = "stops"
    /\ idx = 2
    /\ parada_id = JInt(7)
    /\ Len(resultados_por_linea) = 1
    /\ EsPlaceholder(resultados_por_linea[1])
    /\ \E key \in DOMAIN resultados_totales :
          /\ resultados_totales[key].nombre_parada = "Plaza"
          /\ resultados_totales[key].horarios_ordenados = <<>>

\* a and b are instants of the same clock minute of the same day.
MismoMinuto(a, b) == a.day = b.day /\ a.h = b.h /\ a.m = b.m

\* The minutos_restantes of the entries an invocation of
\* process_schedules_for_stops made at instant t, with the tables as they
\* are, computes for the stop being computed; t2 is what its later reads of
\* the clock return.
MinutosEn(t, t2) ==
    LET base == HorariosBase(GTFS_DATA,
                    ServiciosActivos(GTFS_DATA.calendar, GTFS_DATA.calendar_dates, t))
        lineas == obtener_lineas_id_parada(parada_id, base, GTFS_DATA.routes)
        entradas == Concat([k \in 1..Len(lineas) |->
                        resultado_linea(variant, parada_id, lineas[k], base, t, t2)])
    IN [k \in 1..Len(entradas) |-> entradas[k].minutos_restantes]

\* C11: a second invocation for the same stop, with the same tables and a
\* now of the same clock minute (same HH:MM, any seconds), computes the same
\* minutos_restantes for every entry as the invocation that has just
\* computed the stop.
C11_Idempotence ==
    ParadaCalculada
    => \A t \in Clocks :
          MismoMinuto(t, ahora)
          => \A t2 \in ClocksAfter(t) :
                MinutosEn(t, t2) =
                    [k \in 1..Len(resultados_por_linea) |->
                        resultados_por_linea[k].minutos_restantes]

\* The coords of a group is a "lat,lon" text float() reads both parts of.
Parseable(coords) ==
    /\ coords.kind = "str"
    /\ Len(Split(coords.s, ",")) = 2
    /\ \A k \in 1..2 : FloatParses(Split(coords.s, ",")[k])

\* The groups of the configuration with parseable coordinates.
GruposValidos == {k \in 1..Len(user_config) : Parseable(user_config[k].coords)}

\* The distance from the caller to the k-th group.
Distancia(k) ==
    haversine(user_pos.lat, user_pos.lon,
              FloatValue(Split(user_config[k].coords.s, ",")[1]),
              FloatValue(Split(user_config[k].coords.s, ",")[2]))

\* get_nearest_group has answered after running its loop over the groups.
NearestRecorrido ==
    /\ pc = "done"
    /\ response.error \notin {"faltan_parametros", "excepcion", "config_remota", "clave"}

\* C12: a request that reaches the loop never fails because of a group with
\* missing or malformed coordinates, and when some group has a parseable
\* "lat,lon" text the answer names such a group at the least distance from
\* the caller: no group with valid coordinates is strictly closer.
C12_NearestGroup ==
    NearestRecorrido
    => (GruposValidos # {}
        => /\ response.status = 200
           /\ response.body.kind = "nearest"
           /\ \E k \in GruposValidos :
                 /\ user_config[k].group_name = response.body.nearest_group
                 /\ \A j \in GruposValidos : Distancia(k) <= Distancia(j))

\* C13: whatever the interleaving of the concurrent first requests, the
\* body of load_gtfs_data that reads the files runs at most once, and
\* GTFS_DATA is never assigned once it holds a value other than None.
C13_LoadOnce ==
    [][/\ cargas' <= 1
       /\ (\E h \in Hilos : hilo_asignar(h)) => GTFS_DATA = NoneData]_vars

\* The response of a request that was refused: an error object with an
\* error status and no schedule mapping.
EsRechazo(r) ==
    /\ r.error # ""
    /\ r.status \in {400, 404, 500}
    /\ r.body = NoResult

\* C14: while GTFS_DATA is None no request to GET /api/bus/<group_name>
\* enters process_schedules_for_stops, and the answer of every such request
\* is an error object, never a schedule mapping.
C14_RefuseUntilLoaded ==
    GTFS_DATA = NoneData
    => /\ pc \notin {"pss", "stops", "lineas", "ret"}
       /\ resultados = NoResult
       /\ pc = "done" => EsRechazo(response)

\* C14 witness: the load failed for a missing file, and a request with a
\* valid key was answered "Datos GTFS no cargados" with status 500.
C14_Witness ==
    /\ GTFS_DATA = NoneData
    /\ initial_setup_done
    /\ ~archivos.present
    /\ pc = "done"
    /\ response = ErrorResponse(500, "gtfs_no_cargados")

\* C15: when the load of the first request failed and the files are in
\* place when a later request arrives, the run_once_setup of that request
\* loads the tables.
C15_RetryAfterRestore ==
    [][(run_once_setup /\ GTFS_DATA = NoneData /\ archivos.present)
          => GTFS_DATA' # NoneData]_vars

\* C16: one invocation of process_schedules_for_stops reads the clock once:
\* from its first lines to its return the count of reads stays at one.
C16_ClockOnce ==
    pc \in {"stops", "lineas", "ret"} => lecturas_reloj = 1

\* The second departure of the k-th group after now's HH:MM:SS.
SiguienteSalida(k) ==
    CHOOSE d \in SalidasPosteriores(k) \ {ProximaSalida(k)} :
        \A o \in SalidasPosteriores(k) \ {ProximaSalida(k)} : ~StrGT(d, o)

\* C17: the entry of the group just computed reports as proximo_bus the
\* HH:MM of the smallest departure_time above now's HH:MM:SS text and as
\* siguiente_bus that of the second smallest, "N/A" when there is one only;
\* when no departure_time is above now's, proximo_bus, siguiente_bus and
\* minutos_restantes are all "N/A".  No departure at or below now's text is
\* reported.
C17_NextAndFollowing ==
    GrupoProcesado
    => /\ Len(resultados_por_linea) = lin - 1
       /\ UltimaEntrada.linea = lineas_con_destino[lin - 1][2]
       /\ IF SalidasPosteriores(lin - 1) = {}
          THEN EsPlaceholder(UltimaEntrada)
          ELSE /\ UltimaEntrada.proximo_bus = Prefix(ProximaSalida(lin - 1), 5)
               /\ UltimaEntrada.siguiente_bus =
                     IF Cardinality(SalidasPosteriores(lin - 1)) > 1
                     THEN Prefix(SiguienteSalida(lin - 1), 5) ELSE NA
               /\ ~UltimaEntrada.minutos_restantes.na

\* The instant of today the departure text d (hour below 24) names.
SalidaHoy(d) ==
    [ahora EXCEPT !.h = SplitHour(d), !.m = SplitMinute(d),
                  !.s = DigitsToInt(SubSeq(d, 7, 8)), !.us = 0]

\* The group just computed has a departure after now's HH:MM:SS, the next
\* one with an hour strptime accepts: the ordinary path was taken.
CaminoOrdinario ==
    /\ GrupoProcesado
    /\ SalidasPosteriores(lin - 1) # {}
    /\ StrptimeOK(Prefix(ProximaSalida(lin - 1), 5))

\* The minutes of the entry just computed are those to the next departure's
\* HH:MM of today, not rolled to tomorrow, and lie between 0 and the whole
\* minutes from now to that departure.
SinSaltoDeDia ==
    /\ Len(resultados_por_linea) > 0
    /\ ~UltimaEntrada.minutos_restantes.na
    /\ UltimaEntrada.minutos_restantes.v =
          MinutesBetween(ReplaceHM(ahora, SplitHour(ProximaSalida(lin - 1)),
                                   SplitMinute(ProximaSalida(lin - 1))), ahora)
    /\ 0 <= UltimaEntrada.minutos_restantes.v
    /\ UltimaEntrada.minutos_restantes.v
          <= MinutesBetween(SalidaHoy(ProximaSalida(lin - 1)), ahora)

\* C18 as stated: on the ordinary path the candidate is never rolled to the
\* next day, whatever the seconds of now and of the departure.
C18_NoRollForward == CaminoOrdinario => SinSaltoDeDia

\* C18 amended: on the ordinary path, for a next departure whose seconds
\* are "00", the candidate is never rolled to the next day, whatever the
\* seconds of now.
C18_NoRollOnWholeMinute ==
    (CaminoOrdinario /\ SubSeq(ProximaSalida(lin - 1), 7, 8) = <<"0", "0">>)
    => SinSaltoDeDia

\* C18 witness: at 08:05:30.5 the departure "08:10:00" is reported with 4
\* minutes.
C18_Witness ==
    /\ CaminoOrdinario
    /\ ahora.s = 30 /\ ahora.us = 1
    /\ ProximaSalida(lin - 1) = HMS(8, 10, 0)
    /\ UltimaEntrada.minutos_restantes = MinVal(4)

=============================================================================
